---- MODULE Spec2Model ----
(***************************************************************************)
(* Model of src/engine/util/http.ts: the mime classifier                   *)
(* getMediaMimeExtension and the streaming download controller             *)
(* downloadMedia, one invocation, as a state machine over the events of    *)
(* the Node event loop (response, mkParents, 'data', 'end', writer 'error' *)
(* and 'close', the caller's writes to prog.shouldStop).                   *)
(***************************************************************************)
EXTENDS Integers, Sequences, FiniteSets, TLC

\* ---------------------------------------------------------------- bounds
MaxChunks == 2
MaxChunkLen == 2
MaxTotal == 3

\* ------------------------------------------------------- JS value helpers
\* JavaScript's `false`, as returned by getMediaMimeExtension / mime.extension
JsFalse == "<false>"
\* headers['content-length'] when the header is absent (undefined)
NoLength == -1

UpperChars == <<"A","B","C","D","E","F","G","H","I","J","K","L","M",
                "N","O","P","Q","R","S","T","U","V","W","X","Y","Z">>
LowerChars == <<"a","b","c","d","e","f","g","h","i","j","k","l","m",
                "n","o","p","q","r","s","t","u","v","w","x","y","z">>

\* String.prototype.toLowerCase, one character
LowerChar(c) ==
    IF \E i \in 1..Len(UpperChars) : UpperChars[i] = c
    THEN LowerChars[CHOOSE i \in 1..Len(UpperChars) : UpperChars[i] = c]
    ELSE c

toLowerCase(s) == [i \in 1..Len(s) |-> LowerChar(s[i])]

IsSpace(c) == c = " "

\* String.prototype.trim
trim(s) ==
    LET idx == {i \in 1..Len(s) : ~IsSpace(s[i])}
    IN  IF idx = {} THEN <<>>
        ELSE SubSeq(s, CHOOSE i \in idx : \A j \in idx : i <= j,
                       CHOOSE i \in idx : \A j \in idx : i >= j)

startsWith(s, p) == Len(s) >= Len(p) /\ SubSeq(s, 1, Len(p)) = p

\* content-type strings are sequences of characters
IMAGE_ == <<"i","m","a","g","e","/">>
AUDIO_ == <<"a","u","d","i","o","/">>
VIDEO_ == <<"v","i","d","e","o","/">>
TEXT_  == <<"t","e","x","t","/">>

allowedTypes == <<IMAGE_, AUDIO_, VIDEO_>>

CtAbsent     == <<>>
CtTextHtml   == TEXT_ \o <<"h","t","m","l">>
CtImageJpeg  == IMAGE_ \o <<"j","p","e","g">>
CtImagePngUp == <<" ","I","m","a","g","e","/","P","N","G"," ">>
CtAudioMpeg  == AUDIO_ \o <<"m","p","e","g">>
CtVideoMp4   == VIDEO_ \o <<"m","p","4">>
CtImageMadeUp == IMAGE_ \o <<"x","-","n","o","p","e">>
CtImageJpegParam == IMAGE_ \o <<"j","p","e","g",";","q","=","1">>

ContentTypes == {CtAbsent, CtTextHtml, CtImageJpeg, CtImagePngUp, CtAudioMpeg,
                 CtVideoMp4, CtImageMadeUp, CtImageJpegParam}

\* the content-types of the responses the controller is run on: absent,
\* non-media, media without a table entry, and two accepted ones
ResponseTypes == {CtAbsent, CtTextHtml, CtImageMadeUp, CtImageJpeg, CtImagePngUp}

\* the MIME-to-extension table of mime-types (first extension of each type)
MimeDb == {
    <<IMAGE_ \o <<"j","p","e","g">>, "jpeg">>,
    <<IMAGE_ \o <<"p","n","g">>, "png">>,
    <<AUDIO_ \o <<"m","p","e","g">>, "mpga">>,
    <<VIDEO_ \o <<"m","p","4">>, "mp4">>,
    <<TEXT_ \o <<"h","t","m","l">>, "html">> }

\* mime.extension(type): takes the token up to ';' or whitespace after leading
\* whitespace, lowercases it and looks it up; false when the table has no entry
MimeToken(s) ==
    LET lead == {i \in 1..Len(s) : ~IsSpace(s[i])}
    IN  IF lead = {} THEN <<>>
        ELSE LET b == CHOOSE i \in lead : \A j \in lead : i <= j
                 stops == {i \in b..Len(s) : IsSpace(s[i]) \/ s[i] = ";"}
                 e == IF stops = {} THEN Len(s)
                      ELSE (CHOOSE i \in stops : \A j \in stops : i <= j) - 1
             IN  SubSeq(s, b, e)

mimeExtension(type) ==
    LET t == toLowerCase(MimeToken(type))
    IN  IF \E m \in MimeDb : m[1] = t
        THEN (CHOOSE m \in MimeDb : m[1] = t)[2]
        ELSE JsFalse

\* mutant: the table's "jpeg" is returned as it is
getMediaMimeExtension_KeepsJpeg(type) ==
    IF type = <<>>
       \/ ~(\E i \in 1..Len(allowedTypes) :
               startsWith(toLowerCase(trim(type)), allowedTypes[i]))
    THEN JsFalse
    ELSE mimeExtension(type)

\* mutant: the allowed-prefix test is dropped
getMediaMimeExtension_NoPrefixCheck(type) ==
    IF type = <<>> THEN JsFalse
    ELSE LET ext == mimeExtension(type) IN IF ext = "jpeg" THEN "jpg" ELSE ext

getMediaMimeExtension(type) ==
    IF type = <<>>
       \/ ~(\E i \in 1..Len(allowedTypes) :
               startsWith(toLowerCase(trim(type)), allowedTypes[i]))
    THEN JsFalse
    ELSE LET ext == mimeExtension(type) IN IF ext = "jpeg" THEN "jpg" ELSE ext

\* mutant: the test of line 70 never fires
Falsy_Never(ext) == FALSE

\* JS truthiness of `ext` (string or false) and of headers['content-length']
\* (a header string, "0" included, is truthy; undefined is not)
Falsy(ext) == ext = JsFalse \/ ext = ""
Truthy(totalLength) == totalLength # NoLength

\* parseFloat((downloaded/totalLength).toFixed(2)), in hundredths:
\* toFixed rounds to the nearest hundredth, the larger one on a tie
ToFixed2(d, t) == (200 * d + t) \div (2 * t)

\* ------------------------------------------------------------- outcomes
Pending == [kind |-> "Pending", value |-> ""]
Success(e) == [kind |-> "Success", value |-> e]
RejectedMimetype == [kind |-> "RejectedMimetype",
                     value |-> "Attempted to download non-media mimetype."]
Cancelled == [kind |-> "Cancelled", value |-> "Interrupted http download."]
TransportFailure(cause) == [kind |-> "TransportFailure", value |-> cause]

OutcomeKinds == {"Success", "RejectedMimetype", "Cancelled", "TransportFailure"}

\* mutant: a later resolve/reject replaces the settled value
Settle_LastWins(p, v) == v

\* resolve/reject of the promise the caller awaits: the first call settles it
Settle(p, v) == IF p = Pending THEN v ELSE p

\* mutant: the stop branch clears the flag it has just read
DataHandler_ClearsStop(p, chunkLen, dl, total) ==
    IF p.shouldStop
    THEN [prog |-> [p EXCEPT !.shouldStop = FALSE], downloaded |-> dl, stop |-> TRUE]
    ELSE IF Truthy(total)
         THEN [prog |-> [p EXCEPT !.knowsPercent = TRUE,
                                  !.percent = ToFixed2(dl + chunkLen, total)],
               downloaded |-> dl + chunkLen, stop |-> FALSE]
         ELSE [prog |-> [p EXCEPT !.knowsPercent = FALSE],
               downloaded |-> dl, stop |-> FALSE]

\* mutant: knowsPercent is set whether or not a content-length was declared
DataHandler_AlwaysKnows(p, chunkLen, dl, total) ==
    IF p.shouldStop
    THEN [prog |-> p, downloaded |-> dl, stop |-> TRUE]
    ELSE IF Truthy(total)
         THEN [prog |-> [p EXCEPT !.knowsPercent = TRUE,
                                  !.percent = ToFixed2(dl + chunkLen, total)],
               downloaded |-> dl + chunkLen, stop |-> FALSE]
         ELSE [prog |-> [p EXCEPT !.knowsPercent = TRUE],
               downloaded |-> dl, stop |-> FALSE]

\* mutant: the byte count is overwritten by the chunk length, not accumulated
DataHandler_NoAccumulate(p, chunkLen, dl, total) ==
    IF p.shouldStop
    THEN [prog |-> p, downloaded |-> dl, stop |-> TRUE]
    ELSE IF Truthy(total)
         THEN [prog |-> [p EXCEPT !.knowsPercent = TRUE,
                                  !.percent = ToFixed2(chunkLen, total)],
               downloaded |-> chunkLen, stop |-> FALSE]
         ELSE [prog |-> [p EXCEPT !.knowsPercent = FALSE],
               downloaded |-> dl, stop |-> FALSE]

\* the 'data' listener of lines 78-91: the new progress handle, the new byte
\* count, and whether the stop branch (writer.close(); cancel()) was taken
DataHandler(p, chunkLen, dl, total) ==
    IF p.shouldStop
    THEN [prog |-> p, downloaded |-> dl, stop |-> TRUE]
    ELSE IF Truthy(total)
         THEN [prog |-> [p EXCEPT !.knowsPercent = TRUE,
                                  !.percent = ToFixed2(dl + chunkLen, total)],
               downloaded |-> dl + chunkLen, stop |-> FALSE]
         ELSE [prog |-> [p EXCEPT !.knowsPercent = FALSE],
               downloaded |-> dl, stop |-> FALSE]

\* mutant: a write after end() is dropped without an error
WriterWrite_SilentDrop(ending, failed) ==
    IF ending \/ failed THEN "dropped" ELSE "ok"

\* writer.write(chunk) as called by the pipe's 'data' listener: refused with
\* ERR_STREAM_WRITE_AFTER_END once end() was called (writer.close() calls
\* end()), with ERR_STREAM_DESTROYED once the writer has failed
WriterWrite(ending, failed) ==
    IF ending THEN "ERR_STREAM_WRITE_AFTER_END"
    ELSE IF failed THEN "ERR_STREAM_DESTROYED"
    ELSE "ok"

\* mutant: the test of shouldStop in the close listener is inverted
OnClose_Inverted(p, e) == IF p.shouldStop THEN Success(e) ELSE Cancelled

\* mutant: the close listener resolves without reading shouldStop
OnClose_NoStopCheck(p, e) == Success(e)

\* the writer's 'close' listener of lines 95-98
OnClose(p, e) == IF p.shouldStop THEN Cancelled ELSE Success(e)

\* ---------------------------------------------------------------- state
VARIABLES
    pc,            \* position of the async function: requesting, mkParents,
                   \* streaming (promise returned, listeners attached), done
    contentType,   \* headers['content-type'] of the response
    totalLength,   \* headers['content-length'] of the response, or NoLength
    body,          \* the chunks the response stream delivers: their lengths
    prog,          \* the caller's DownloadProgress handle
    prog0,         \* the handle as it was passed in
    responded,     \* the response headers have arrived
    ext,           \* const ext
    outcome,       \* what the caller's await has received
    requests,      \* outbound requests issued
    mkParentsRun,  \* mkParents(filePath) was called
    opened,        \* fs.createWriteStream calls
    fileClosed,    \* the destination file descriptor was closed
    written,       \* indices of the chunks the writer accepted, in order
    writeCalls,    \* indices of the chunks handed to writer.write
    downloaded,    \* let downloaded
    nextChunk,     \* index of the next chunk the stream emits
    src,           \* response stream: paused, flowing, ended, failed, aborted
    piped,         \* data.pipe(writer) is attached
    wEnding,       \* writer.end() was called
    wErrPending,   \* the writer's error that is about to be emitted, or ""
    wErrored,      \* the writer emitted 'error'
    wErrValue,     \* the error the writer emitted, or ""
    awaitDrain,    \* writer.write returned false: the pipe paused the stream
    wCloseEmitted, \* the writer emitted 'close'
    cancelCalled,  \* cancel() was invoked
    stopDetected,  \* the 'data' listener took the shouldStop branch
    percentLog     \* prog.percent after each chunk processed with a known length

vars == <<pc, contentType, totalLength, body, prog, prog0, responded, ext, outcome,
          requests, mkParentsRun, opened, fileClosed, written, writeCalls,
          downloaded, nextChunk, src, piped, wEnding, wErrPending, wErrored,
          wErrValue, awaitDrain, wCloseEmitted, cancelCalled, stopDetected, percentLog>>

Bodies == UNION {[1..n -> 1..MaxChunkLen] : n \in 0..MaxChunks}

InitialPercents == {0, 50}

\* the state of an invocation that has just issued its request, for the
\* response and the progress handle chosen before
InitState ==
    /\ pc = "requesting"
    /\ prog0 = prog
    /\ responded = FALSE
    /\ ext = JsFalse
    /\ outcome = Pending
    /\ requests = 1
    /\ mkParentsRun = FALSE
    /\ opened = 0
    /\ fileClosed = FALSE
    /\ written = <<>>
    /\ writeCalls = <<>>
    /\ downloaded = 0
    /\ nextChunk = 1
    /\ src = "paused"
    /\ piped = FALSE
    /\ wEnding = FALSE
    /\ wErrPending = ""
    /\ wErrored = FALSE
    /\ wErrValue = ""
    /\ awaitDrain = FALSE
    /\ wCloseEmitted = FALSE
    /\ cancelCalled = FALSE
    /\ stopDetected = FALSE
    /\ percentLog = <<>>

Init ==
    /\ contentType \in ResponseTypes
    /\ totalLength \in {NoLength} \cup 0..MaxTotal
    /\ body \in Bodies
    /\ (totalLength = 0 => body = <<>>)
    /\ prog \in [shouldStop : BOOLEAN, knowsPercent : BOOLEAN,
                 percent : InitialPercents]
    /\ InitState

inputs == <<contentType, totalLength, body, prog0, requests>>
writerVars == <<opened, fileClosed, written, writeCalls, wEnding, wErrPending,
                wErrored, wErrValue, awaitDrain, wCloseEmitted>>

\* the pipe detaches from the response stream (unpipe and cleanup): the
\* stream stops flowing, except that a stream the pipe had paused to wait
\* for 'drain' is resumed when it still has a 'data' listener, and the
\* listener of line 78 is never removed
Unpipe(srcState, waiting) ==
    IF waiting /\ srcState = "paused" THEN "flowing"
    ELSE IF srcState = "flowing" THEN "paused"
    ELSE srcState
handlerVars == <<downloaded, nextChunk, cancelCalled, stopDetected, percentLog>>

\* lines 59-72: the awaited request resolves with the response; the type is
\* classified, a non-media type throws, otherwise mkParents is started
RequestResolve ==
    /\ pc = "requesting"
    /\ responded' = TRUE
    /\ ext' = getMediaMimeExtension(contentType)
    /\ IF Falsy(ext')
       THEN /\ outcome' = Settle(outcome, RejectedMimetype)
            /\ pc' = "done"
            /\ mkParentsRun' = mkParentsRun
       ELSE /\ outcome' = outcome
            /\ pc' = "mkParents"
            /\ mkParentsRun' = TRUE
    /\ UNCHANGED <<inputs, prog, writerVars, handlerVars, src, piped>>

\* mutant: a failed request is issued once more before the failure is reported
RequestFail_Retries ==
    /\ pc = "requesting"
    /\ IF requests < 2
       THEN /\ requests' = requests + 1
            /\ UNCHANGED <<outcome, pc>>
       ELSE /\ outcome' = Settle(outcome, TransportFailure("ECONNREFUSED"))
            /\ pc' = "done"
            /\ requests' = requests
    /\ UNCHANGED <<contentType, totalLength, body, prog0, responded, prog, ext,
                   mkParentsRun, writerVars, handlerVars, src, piped>>

\* line 59: the awaited request rejects (DNS failure, connection refused)
RequestFail ==
    /\ pc = "requesting"
    /\ outcome' = Settle(outcome, TransportFailure("ECONNREFUSED"))
    /\ pc' = "done"
    /\ UNCHANGED <<inputs, responded, prog, ext, mkParentsRun, writerVars, handlerVars,
                   src, piped>>

\* lines 72-100: mkParents resolves; the writer is created, the 'data'
\* listener and the pipe are attached (the stream starts flowing), the
\* promise with the 'close' and 'error' listeners is returned
MkParentsDone ==
    /\ pc = "mkParents"
    /\ opened' = opened + 1
    /\ piped' = TRUE
    /\ src' = IF src = "paused" THEN "flowing" ELSE src
    /\ pc' = "streaming"
    /\ UNCHANGED <<inputs, responded, prog, ext, outcome, mkParentsRun, fileClosed,
                   written, writeCalls, wEnding, wErrPending, wErrored,
                   wErrValue, awaitDrain, wCloseEmitted, handlerVars>>

\* line 72: mkParents rejects
MkParentsFail ==
    /\ pc = "mkParents"
    /\ outcome' = Settle(outcome, TransportFailure("EACCES"))
    /\ pc' = "done"
    /\ UNCHANGED <<inputs, responded, prog, ext, mkParentsRun, writerVars, handlerVars,
                   src, piped>>

\* one 'data' event: the listener of lines 78-91 runs first (registered
\* first), then, while the pipe is attached, the pipe's listener hands the
\* same chunk to writer.write and pauses the stream when write returns false
OnData ==
    /\ pc = "streaming"
    /\ src = "flowing"
    /\ nextChunk <= Len(body)
    /\ LET h == DataHandler(prog, body[nextChunk], downloaded, totalLength)
           ending == wEnding \/ h.stop
           res == WriterWrite(ending, wErrPending # "" \/ wErrored)
       IN  /\ prog' = h.prog
           /\ downloaded' = h.downloaded
           /\ stopDetected' = (stopDetected \/ h.stop)
           /\ cancelCalled' = (cancelCalled \/ h.stop)
           /\ wEnding' = ending
           /\ percentLog' = IF ~h.stop /\ Truthy(totalLength)
                            THEN Append(percentLog, h.prog.percent)
                            ELSE percentLog
           /\ IF piped
              THEN /\ writeCalls' = Append(writeCalls, nextChunk)
                   /\ written' = IF res = "ok" THEN Append(written, nextChunk)
                                 ELSE written
                   /\ wErrPending' =
                          IF res \notin {"ok", "dropped"} /\ wErrPending = ""
                          THEN res ELSE wErrPending
                   /\ \E full \in BOOLEAN :
                          /\ full => res = "ok"
                          /\ awaitDrain' = full
                          /\ src' = IF full THEN "paused" ELSE src
              ELSE UNCHANGED <<writeCalls, written, wErrPending, awaitDrain, src>>
    /\ nextChunk' = nextChunk + 1
    /\ UNCHANGED <<pc, inputs, responded, ext, outcome, mkParentsRun, opened, fileClosed,
                   wErrored, wErrValue, wCloseEmitted, piped>>

\* the writer emits 'drain': the pipe resumes the stream it had paused
Drain ==
    /\ awaitDrain
    /\ piped
    /\ wErrPending = ""
    /\ awaitDrain' = FALSE
    /\ src' = IF src = "paused" THEN "flowing" ELSE src
    /\ UNCHANGED <<pc, inputs, responded, prog, ext, outcome, mkParentsRun, opened,
                   fileClosed, written, writeCalls, wEnding, wErrPending, wErrored,
                   wErrValue, wCloseEmitted, handlerVars, piped>>

\* the response stream emits 'end' after its last chunk: a pipe that is
\* still attached calls writer.end() and detaches
SrcEnd ==
    /\ pc = "streaming"
    /\ src = "flowing"
    /\ nextChunk > Len(body)
    /\ src' = "ended"
    /\ wEnding' = (wEnding \/ piped)
    /\ piped' = FALSE
    /\ UNCHANGED <<pc, inputs, responded, prog, ext, outcome, mkParentsRun, opened,
                   fileClosed, written, writeCalls, wErrPending, wErrored,
                   wErrValue, awaitDrain, wCloseEmitted, handlerVars>>

\* the network read fails (connection reset, premature close): the response
\* stream stops without 'end'; pipe() does not end or destroy the writer and
\* downloadMedia has no listener for it
SrcFail ==
    /\ pc \in {"mkParents", "streaming"}
    /\ src \in {"paused", "flowing"}
    /\ src' = "failed"
    /\ UNCHANGED <<pc, inputs, responded, prog, ext, outcome, mkParentsRun, writerVars,
                   handlerVars, piped>>

\* line 82: the cancel token's promise callback aborts the request
CancelEffect ==
    /\ cancelCalled
    /\ src \in {"paused", "flowing"}
    /\ src' = "aborted"
    /\ UNCHANGED <<pc, inputs, responded, prog, ext, outcome, mkParentsRun, writerVars,
                   handlerVars, piped>>

\* the destination reports an I/O error (open, write or close fails)
WriterIOError ==
    /\ opened > 0
    /\ ~wCloseEmitted
    /\ ~wErrored
    /\ wErrPending = ""
    /\ wErrPending' = "EIO"
    /\ UNCHANGED <<pc, inputs, responded, prog, ext, outcome, mkParentsRun, opened,
                   fileClosed, written, writeCalls, wEnding, wErrored,
                   wErrValue, awaitDrain, wCloseEmitted, handlerVars, src, piped>>

\* mutant: the writer's error is not passed to reject
WriterErrorEvent_Swallows ==
    /\ wErrPending # ""
    /\ outcome' = outcome
    /\ wErrored' = TRUE
    /\ wErrValue' = wErrPending
    /\ wErrPending' = ""
    /\ piped' = FALSE
    /\ src' = IF piped THEN Unpipe(src, awaitDrain) ELSE src
    /\ awaitDrain' = FALSE
    /\ \E closedFirst \in BOOLEAN : fileClosed' = (fileClosed \/ closedFirst)
    /\ UNCHANGED <<pc, inputs, responded, prog, ext, mkParentsRun, opened, written,
                   writeCalls, wEnding, wCloseEmitted, handlerVars>>

\* line 99: the writer emits 'error'; the pipe detaches. Whether the file
\* descriptor is already closed when 'error' is emitted depends on the
\* runtime (destroy-then-emit or emit-then-autoClose)
WriterErrorEvent ==
    /\ wErrPending # ""
    /\ outcome' = Settle(outcome, TransportFailure(wErrPending))
    /\ wErrored' = TRUE
    /\ wErrValue' = wErrPending
    /\ wErrPending' = ""
    /\ piped' = FALSE
    /\ src' = IF piped THEN Unpipe(src, awaitDrain) ELSE src
    /\ awaitDrain' = FALSE
    /\ \E closedFirst \in BOOLEAN : fileClosed' = (fileClosed \/ closedFirst)
    /\ UNCHANGED <<pc, inputs, responded, prog, ext, mkParentsRun, opened, written,
                   writeCalls, wEnding, wCloseEmitted, handlerVars>>

\* lines 95-98: the writer emits 'close' (after 'finish' when it was ended,
\* after 'error' when it failed); the descriptor is closed by then
WriterCloseEvent ==
    /\ opened > 0
    /\ wEnding \/ wErrored
    /\ wErrPending = ""
    /\ ~wCloseEmitted
    /\ wCloseEmitted' = TRUE
    /\ fileClosed' = TRUE
    /\ piped' = FALSE
    /\ src' = IF piped THEN Unpipe(src, awaitDrain) ELSE src
    /\ awaitDrain' = FALSE
    /\ outcome' = Settle(outcome, OnClose(prog, ext))
    /\ UNCHANGED <<pc, inputs, responded, prog, ext, mkParentsRun, opened, written,
                   writeCalls, wEnding, wErrPending, wErrored, wErrValue,
                   handlerVars>>

\* the caller writes prog.shouldStop, at any time
CallerSetStop ==
    /\ \E b \in BOOLEAN :
          /\ b # prog.shouldStop
          /\ prog' = [prog EXCEPT !.shouldStop = b]
    /\ UNCHANGED <<pc, inputs, responded, ext, outcome, mkParentsRun, writerVars,
                   handlerVars, src, piped>>

Controller ==
    \/ RequestResolve
    \/ RequestFail
    \/ MkParentsDone
    \/ MkParentsFail
    \/ OnData
    \/ Drain
    \/ SrcEnd
    \/ SrcFail
    \/ CancelEffect
    \/ WriterIOError
    \/ WriterErrorEvent
    \/ WriterCloseEvent

Next ==
    \/ RequestResolve
    \/ RequestFail
    \/ MkParentsDone
    \/ MkParentsFail
    \/ OnData
    \/ Drain
    \/ SrcEnd
    \/ SrcFail
    \/ CancelEffect
    \/ WriterIOError
    \/ WriterErrorEvent
    \/ WriterCloseEvent
    \/ CallerSetStop

Spec == Init /\ [][Next]_vars

RECURSIVE SumSeq(_)
SumSeq(q) == IF q = <<>> THEN 0 ELSE q[1] + SumSeq(Tail(q))

\* the invocations the liveness of the controller is checked on: a fresh
\* progress handle, a rejected and an accepted content-type, every body, with
\* its length declared or not
FairInit ==
    /\ Init
    /\ contentType \in {CtTextHtml, CtImageJpeg}
    /\ totalLength \in {NoLength, SumSeq(body)}
    /\ ~prog.knowsPercent
    /\ prog.percent = 0

\* the invocations the classifier is checked on: every content-type of
\* ContentTypes as the response's header, a short body without declared
\* length, a fresh progress handle
ClassifyInit ==
    /\ contentType \in ContentTypes
    /\ totalLength = NoLength
    /\ body \in {<<>>, <<1>>}
    /\ prog \in [shouldStop : BOOLEAN, knowsPercent : {FALSE}, percent : {0}]
    /\ InitState

ClassifySpec == ClassifyInit /\ [][Next]_vars

\* the event loop runs every event that is ready: the request settles,
\* mkParents settles, a flowing stream delivers its next event (or fails),
\* and the writer emits the 'error' and 'close' it owes
FairSpec ==
    /\ FairInit
    /\ [][Next]_vars
    /\ WF_vars(RequestResolve \/ RequestFail)
    /\ WF_vars(MkParentsDone \/ MkParentsFail)
    /\ WF_vars(OnData \/ SrcEnd \/ SrcFail)
    /\ WF_vars(Drain)
    /\ WF_vars(CancelEffect)
    /\ WF_vars(WriterErrorEvent)
    /\ WF_vars(WriterCloseEvent)

TypeOK ==
    /\ pc \in {"requesting", "mkParents", "streaming", "done"}
    /\ outcome.kind \in OutcomeKinds \cup {"Pending"}
    /\ src \in {"paused", "flowing", "ended", "failed", "aborted"}
    /\ opened \in 0..1
    /\ nextChunk \in 1..(Len(body) + 1)

\* --------------------------------------------------------------- claims
AllChunks == [i \in 1..Len(body) |-> i]

\* content-types of ContentTypes that name no acceptable media
RejectedTypes == {CtAbsent, CtTextHtml, CtImageMadeUp}

\* C1: the caller receives at most one terminal outcome, it is one of
\* Success, RejectedMimetype, Cancelled, TransportFailure, and once an outcome
\* is delivered no later event replaces it.
C1_OneOutcome ==
    /\ [](outcome.kind \in OutcomeKinds \cup {"Pending"})
    /\ [][outcome # Pending => outcome' = outcome]_vars

\* C1 witness: the writer's 'close' listener ran after its 'error' listener
\* had already rejected the promise.
C1_Witness ==
    /\ outcome.kind = "TransportFailure"
    /\ wErrored
    /\ wCloseEmitted

\* C2: when the 'data' listener finds shouldStop true at a chunk, the
\* invocation ends with Cancelled and with no other outcome.
C2_StopEndsCancelled ==
    (stopDetected /\ outcome # Pending) => outcome = Cancelled

\* C3: once the 'data' listener has observed shouldStop true, neither the
\* chunk of that event nor any later chunk is written or handed to the writer.
C3_NothingHandedAfterStop ==
    [][stopDetected' => (written' = written /\ writeCalls' = writeCalls)]_vars

\* C4: for a rejected content-type the invocation fails with RejectedMimetype
\* and never runs mkParents, never opens a destination file and never
\* mutates the progress handle.
C4_RejectedCreatesNothing ==
    (responded /\ contentType \in RejectedTypes) =>
        /\ outcome = RejectedMimetype
        /\ pc = "done"
        /\ ~mkParentsRun
        /\ opened = 0
        /\ written = <<>>
        /\ prog.knowsPercent = prog0.knowsPercent
        /\ prog.percent = prog0.percent

\* C4 witness: a text/html response was classified and rejected.
C4_Witness ==
    /\ responded
    /\ contentType = CtTextHtml
    /\ outcome = RejectedMimetype

\* C5: under fair scheduling of I/O events every invocation eventually
\* delivers a terminal outcome, also when the network read stream fails
\* after streaming has begun.
C5_EventuallyOutcome == <>(outcome # Pending)

\* C6: whenever the destination file was opened, its handle is closed in
\* every state in which a terminal outcome has been delivered.
C6_ClosedWhenTerminal ==
    (opened > 0 /\ outcome # Pending) => fileClosed

PercentMonotone ==
    \A i \in 1..(Len(percentLog) - 1) : percentLog[i] <= percentLog[i + 1]

KnowsAfterChunk ==
    percentLog # <<>> =>
        (prog.knowsPercent /\ prog.percent = percentLog[Len(percentLog)])

\* C7 as stated: with a declared content-length, after each chunk processed
\* with shouldStop false knowsPercent is true and percent has not decreased,
\* and on Success percent is 1.0.
C7_EndsAtOne ==
    Truthy(totalLength) =>
        /\ KnowsAfterChunk
        /\ PercentMonotone
        /\ (outcome.kind = "Success" => prog.percent = 100)

\* C7 amended: with a declared content-length, after each chunk processed
\* with shouldStop false knowsPercent is true and percent has not decreased;
\* on Success after at least one chunk percent is the two-decimal rounding
\* of bytes delivered / declared length, which is 1.0 when the bytes
\* delivered equal the declared length; on Success with no chunk the
\* progress handle is as it was passed in.
C7_PercentOnSuccess ==
    Truthy(totalLength) =>
        /\ KnowsAfterChunk
        /\ PercentMonotone
        /\ (outcome.kind = "Success" /\ body # <<>>) =>
              /\ prog.knowsPercent
              /\ prog.percent = ToFixed2(SumSeq(body), totalLength)
              /\ (SumSeq(body) = totalLength => prog.percent = 100)
        /\ (outcome.kind = "Success" /\ body = <<>>) =>
              /\ prog.knowsPercent = prog0.knowsPercent
              /\ prog.percent = prog0.percent

\* C7 witness: a body of several chunks and of the declared length was
\* downloaded.
C7_Witness ==
    /\ Truthy(totalLength)
    /\ outcome.kind = "Success"
    /\ Len(percentLog) >= 2
    /\ SumSeq(body) = totalLength
    /\ prog.percent = 100

\* C8: with no declared content-length and knowsPercent false at the start,
\* knowsPercent stays false and percent keeps its initial value.
C8_UnknownLength ==
    (totalLength = NoLength /\ ~prog0.knowsPercent) =>
        (~prog.knowsPercent /\ prog.percent = prog0.percent)

\* C8 witness: a body without content-length was streamed to the end.
C8_Witness ==
    /\ totalLength = NoLength
    /\ ~prog0.knowsPercent
    /\ Len(written) >= 2
    /\ outcome.kind = "Success"

\* C9: on Success(extension) every chunk of the response body was written to
\* the destination file, in order, however the caller set shouldStop.
C9_SuccessHasFullBody ==
    outcome.kind = "Success" =>
        /\ written = AllChunks
        /\ outcome.value = ext
        /\ ~Falsy(ext)

\* C9 witness: Success of a body of several chunks although the caller had
\* shouldStop set when the invocation started (and cleared it in time).
C9_Witness ==
    /\ outcome.kind = "Success"
    /\ prog0.shouldStop
    /\ Len(body) >= 2

\* C10: no action of the controller changes prog.shouldStop.
C10_ControllerKeepsShouldStop ==
    [][Controller => prog'.shouldStop = prog.shouldStop]_vars

\* C10 witness: the stop branch, the cancellation and the close listener
\* have run and shouldStop is still set.
C10_Witness ==
    /\ stopDetected
    /\ cancelCalled
    /\ wCloseEmitted
    /\ prog.shouldStop

\* C11: one invocation issues exactly one outbound request and opens at most
\* one destination file, also after a rejection, a cancellation or a
\* transport failure: nothing is retried.
C11_OneRequestOneFile ==
    /\ requests = 1
    /\ opened <= 1
    /\ (opened = 1 => mkParentsRun)

\* C11 witness: the invocation failed after the file was opened and the
\* writer has closed; there is still one request and one file.
C11_Witness ==
    /\ outcome.kind = "TransportFailure"
    /\ opened = 1
    /\ wCloseEmitted
    /\ requests = 1

\* C12: once the terminal outcome is delivered, no later event changes
\* prog.knowsPercent or prog.percent or writes to the destination file.
C12_NoMutationAfterOutcome ==
    [][outcome # Pending =>
          /\ prog'.knowsPercent = prog.knowsPercent
          /\ prog'.percent = prog.percent
          /\ written' = written]_vars

HasAllowedPrefix(type) ==
    \/ startsWith(toLowerCase(trim(type)), IMAGE_)
    \/ startsWith(toLowerCase(trim(type)), AUDIO_)
    \/ startsWith(toLowerCase(trim(type)), VIDEO_)

\* C13: getMediaMimeExtension returns false for the empty or absent
\* content-type and for every type that, trimmed and lowercased, does not
\* start with image/, audio/ or video/; for an accepted type it returns the
\* table's extension, with jpeg returned as jpg; an allowed-prefix type
\* without a table entry is rejected.
C13_Classifier ==
    responded =>
        /\ (contentType = <<>> => ext = JsFalse)
        /\ (~HasAllowedPrefix(contentType) => ext = JsFalse)
        /\ (contentType = CtTextHtml => ext = JsFalse)
        /\ (contentType = CtImageMadeUp => ext = JsFalse)
        /\ (contentType = CtImageJpeg => ext = "jpg")
        /\ (contentType = CtImageJpegParam => ext = "jpg")
        /\ (contentType = CtImagePngUp => ext = "png")
        /\ (contentType = CtAudioMpeg => ext = "mpga")
        /\ (contentType = CtVideoMp4 => ext = "mp4")
        /\ ext # "jpeg"
        /\ (HasAllowedPrefix(contentType) =>
               ext = (IF mimeExtension(contentType) = "jpeg" THEN "jpg"
                      ELSE mimeExtension(contentType)))

\* C13 witness: a type that needs trimming and lowercasing was accepted.
C13_Witness ==
    /\ responded
    /\ contentType = CtImagePngUp
    /\ ext = "png"

\* C14: when the writer emits an error, at any point of the transfer and also
\* after the stop branch has closed the writer, the invocation ends in
\* TransportFailure carrying that error unchanged.
C14_WriterErrorIsOutcome ==
    wErrored => outcome = TransportFailure(wErrValue)

\* C14 witness: the stop branch closed the writer, the writer emitted an
\* error and then 'close', and the outcome is that error.
C14_Witness ==
    /\ stopDetected
    /\ wEnding
    /\ wErrored
    /\ wCloseEmitted
    /\ prog.shouldStop
    /\ outcome = TransportFailure(wErrValue)

\* C15: when the content-type is rejected, the connection is aborted or
\* released (cancel() was invoked or the response stream is no longer open)
\* by the time RejectedMimetype is delivered.
C15_RejectionReleasesConnection ==
    outcome = RejectedMimetype =>
        (cancelCalled \/ src \in {"aborted", "ended", "failed"})

\* C16: whenever prog.knowsPercent is true, prog.percent lies between 0 and 1
\* (0 and 100 hundredths), for any declared length and any chunk sizes.
C16_PercentInRange ==
    prog.knowsPercent => (0 <= prog.percent /\ prog.percent <= 100)

IsPrefixOfBody(q) == q = [i \in 1..Len(q) |-> i] /\ Len(q) <= Len(body)

\* C17: the steps are ordered: classification after the response, mkParents
\* only after an accepting classification, the file opened only after
\* mkParents has completed, no chunk consumed before the file is opened, and
\* the chunks handed on start with the first chunk of the response.
C17_Ordered ==
    /\ requests >= 1
    /\ (ext # JsFalse => responded)
    /\ (mkParentsRun => (responded /\ contentType \notin RejectedTypes))
    /\ (opened > 0 => (mkParentsRun /\ pc = "streaming"))
    /\ (pc # "streaming" =>
           /\ opened = 0
           /\ nextChunk = 1
           /\ writeCalls = <<>>
           /\ src \in {"paused", "failed"})
    /\ IsPrefixOfBody(writeCalls)
    /\ (piped => Len(writeCalls) = nextChunk - 1)

\* C17 witness: after mkParents the file was opened and both chunks of the
\* body were handed on in order.
C17_Witness ==
    /\ pc = "streaming"
    /\ opened = 1
    /\ Len(body) = 2
    /\ written = AllChunks

\* C18 as stated: Cancelled is delivered only if the 'data' listener observed
\* shouldStop at some chunk and invoked cancel(); a transfer whose chunks
\* were all checked with shouldStop false and relayed ends in Success, also
\* when shouldStop is set between the last chunk and the writer's 'close'.
C18_CancelledOnlyAfterDetection ==
    /\ (outcome = Cancelled => (stopDetected /\ cancelCalled))
    /\ ((wCloseEmitted /\ ~wErrored /\ ~stopDetected /\ written = AllChunks)
            => outcome.kind = "Success")

\* C18 amended: Cancelled is delivered only by the writer's 'close' listener,
\* when shouldStop is true at that event and the writer has emitted no
\* error. A transfer whose chunks were all checked with shouldStop false and
\* relayed ends in Success when shouldStop is false at 'close' and in
\* Cancelled when it is true.
C18_CancelledAtClose ==
    /\ [](outcome = Cancelled => (wCloseEmitted /\ ~wErrored))
    /\ [][(outcome = Pending /\ outcome' = Cancelled) =>
             (prog.shouldStop /\ ~wCloseEmitted /\ wCloseEmitted')]_vars
    /\ [][(~wCloseEmitted /\ wCloseEmitted' /\ ~wErrored /\ ~stopDetected
             /\ written = AllChunks) =>
             outcome' = (IF prog.shouldStop THEN Cancelled ELSE Success(ext))]_vars

\* C18 witness: every chunk was relayed, the caller set shouldStop after the
\* last chunk, and the 'close' listener delivered Cancelled.
C18_Witness ==
    /\ outcome = Cancelled
    /\ ~prog0.shouldStop
    /\ Len(body) = 2
    /\ written = AllChunks
    /\ ~stopDetected

\* C19: Success is delivered only by a 'close' event at which shouldStop is
\* false, whatever the caller did to shouldStop before.
C19_NoSuccessWhileStopped ==
    [][(outcome = Pending /\ outcome'.kind = "Success") =>
          (~prog.shouldStop /\ ~prog'.shouldStop /\ wCloseEmitted')]_vars

\* C19 witness: Success was delivered although the caller had shouldStop set
\* when the invocation started.
C19_Witness ==
    /\ outcome.kind = "Success"
    /\ prog0.shouldStop
    /\ ~prog.shouldStop
    /\ Len(body) = 1

====
